---- MODULE Spec2Model ----
(***************************************************************************)
(* The Author controller of express-locallibrary                           *)
(* (src/controllers/authorController.js) as a state machine.               *)
(*                                                                         *)
(* The state is the record store (the Author and Book collections) and,   *)
(* per request, the position of its handler between two awaits, its local *)
(* variables, the calls it has made on the response (res.render,          *)
(* res.redirect, next(err)) and the store mutations it has issued.  Every *)
(* await on a store call is a point where other requests, and other       *)
(* clients of the store, may run.                                          *)
(***************************************************************************)
EXTENDS Integers, Sequences, FiniteSets, TLC

(* ------------------------------ bounds -------------------------------- *)

\* Requests served in one behaviour (each request slot serves one request);
\* with two or more they overlap at every await.
MaxReq == 1

\* Book records other clients of the store may insert.
MaxBooks == 1

\* Delete requests served in one behaviour of the delete-only system.
MaxDeletes == 2

\* Requests served one after the other in the serial create/detail system.
MaxSerial == 2

\* Longest name a client submits in the validation-only system.
MaxLen == 2

(* --------------------------- JavaScript values ------------------------ *)

Undefined == [t |-> "undefined"]
Null == [t |-> "null"]
Str(s) == [t |-> "string", s |-> s]
DateOf(y, m, d) == [t |-> "date", y |-> y, m |-> m, d |-> d]

\* A falsy form value, as express-validator's optional({values: 'falsy'}) sees it.
IsFalsy(v) == v = Undefined \/ v = Null \/ v = Str(<<>>)

\* express-validator's toString of a field value before a standard
\* validator or sanitizer runs: undefined and null become ''.
toString(v) == IF v.t = "string" THEN v.s ELSE <<>>

(* ------------------------------ strings ------------------------------- *)

Digits == {"0", "1", "2", "3", "4", "5", "6", "7", "8", "9"}

Letters ==
    {"a", "b", "c", "d", "e", "f", "g", "h", "i", "j", "k", "l", "m",
     "n", "o", "p", "q", "r", "s", "t", "u", "v", "w", "x", "y", "z",
     "A", "B", "C", "D", "E", "F", "G", "H", "I", "J", "K", "L", "M",
     "N", "O", "P", "Q", "R", "S", "T", "U", "V", "W", "X", "Y", "Z"}

Whitespace == {" ", "\t", "\n", "\r"}

RECURSIVE LTrim(_)
LTrim(s) ==
    IF s # <<>> /\ Head(s) \in Whitespace THEN LTrim(Tail(s)) ELSE s

RECURSIVE RTrim(_)
RTrim(s) ==
    IF s # <<>> /\ s[Len(s)] \in Whitespace
    THEN RTrim(SubSeq(s, 1, Len(s) - 1))
    ELSE s

\* .trim()
Trim(s) == RTrim(LTrim(s))

\* validator.js escape of one character (of the characters the requests of
\* this model can carry).
EscapeChar(c) ==
    CASE c = "&" -> <<"&", "a", "m", "p", ";">>
      [] c = "<" -> <<"&", "l", "t", ";">>
      [] c = ">" -> <<"&", "g", "t", ";">>
      [] c = "\"" -> <<"&", "q", "u", "o", "t", ";">>
      [] c = "/" -> <<"&", "#", "x", "2", "F", ";">>
      [] c = "\\" -> <<"&", "#", "x", "5", "C", ";">>
      [] OTHER -> <<c>>

RECURSIVE Escape(_)
\* .escape()
Escape(s) == IF s = <<>> THEN <<>> ELSE EscapeChar(Head(s)) \o Escape(Tail(s))

\* .isLength({ min: 1 })
IsLengthMin1(s) == Len(s) >= 1

\* .isAlphanumeric(): /^[0-9A-Z]+$/i
IsAlphanumeric(s) ==
    /\ Len(s) >= 1
    /\ \A i \in 1..Len(s) : s[i] \in Digits \cup Letters

DigitVal(c) ==
    CASE c = "0" -> 0 [] c = "1" -> 1 [] c = "2" -> 2 [] c = "3" -> 3
      [] c = "4" -> 4 [] c = "5" -> 5 [] c = "6" -> 6 [] c = "7" -> 7
      [] c = "8" -> 8 [] c = "9" -> 9

AllDigits(s) == \A i \in 1..Len(s) : s[i] \in Digits

RECURSIVE NumVal(_)
NumVal(s) ==
    IF s = <<>> THEN 0 ELSE 10 * NumVal(SubSeq(s, 1, Len(s) - 1)) + DigitVal(s[Len(s)])

\* .isISO8601() on the calendar forms YYYY, YYYY-MM and YYYY-MM-DD
\* (month 01..12, day 01..31).
IsISO8601(s) ==
    \/ Len(s) = 4 /\ AllDigits(s)
    \/ /\ Len(s) = 7
       /\ AllDigits(SubSeq(s, 1, 4)) /\ s[5] = "-" /\ AllDigits(SubSeq(s, 6, 7))
       /\ NumVal(SubSeq(s, 6, 7)) \in 1..12
    \/ /\ Len(s) = 10
       /\ AllDigits(SubSeq(s, 1, 4)) /\ s[5] = "-" /\ AllDigits(SubSeq(s, 6, 7))
       /\ s[8] = "-" /\ AllDigits(SubSeq(s, 9, 10))
       /\ NumVal(SubSeq(s, 6, 7)) \in 1..12
       /\ NumVal(SubSeq(s, 9, 10)) \in 1..31

\* .toDate(): the Date the text parses to, null when it does not parse.
ToDate(s) ==
    IF ~IsISO8601(s) THEN Null
    ELSE DateOf(NumVal(SubSeq(s, 1, 4)),
                IF Len(s) >= 7 THEN NumVal(SubSeq(s, 6, 7)) ELSE 1,
                IF Len(s) >= 10 THEN NumVal(SubSeq(s, 9, 10)) ELSE 1)

(* ------------------------- validation chains -------------------------- *)

FieldError(path, msg) == [path |-> path, msg |-> msg]

\* What one chain leaves behind: the sanitized value written back to
\* req.body and the errors it recorded, in the order of its validators.
ChainResult(value, errors) == [value |-> value, errors |-> errors]

\* The chain as the one of author_update_post has it: without
\* .isAlphanumeric().
CreateNameChain_NoAlnum(path, v, msgLength, msgAlnum) ==
    LET trimmed == Trim(toString(v))
    IN  ChainResult(Str(Escape(trimmed)),
            IF IsLengthMin1(trimmed) THEN <<>> ELSE <<FieldError(path, msgLength)>>)

\* body(f).trim().isLength({min: 1}).escape().withMessage(m1)
\*        .isAlphanumeric().withMessage(m2)
CreateNameChain(path, v, msgLength, msgAlnum) ==
    LET trimmed == Trim(toString(v))
        escaped == Escape(trimmed)
    IN  ChainResult(Str(escaped),
            (IF IsLengthMin1(trimmed) THEN <<>> ELSE <<FieldError(path, msgLength)>>)
            \o (IF IsAlphanumeric(escaped) THEN <<>> ELSE <<FieldError(path, msgAlnum)>>))

\* body(f, m).trim().isLength({min: 1}).escape()
UpdateNameChain(path, v, msg) ==
    LET trimmed == Trim(toString(v))
    IN  ChainResult(Str(Escape(trimmed)),
            IF IsLengthMin1(trimmed) THEN <<>> ELSE <<FieldError(path, msg)>>)

\* body(f, m).optional({values: 'falsy'}).isISO8601().toDate()
DateChain(path, v, msg) ==
    IF IsFalsy(v) THEN ChainResult(v, <<>>)
    ELSE ChainResult(ToDate(toString(v)),
            IF IsISO8601(toString(v)) THEN <<>> ELSE <<FieldError(path, msg)>>)

\* The four chains of author_create_post, run in order over req.body.
CreateValidation(body) ==
    LET fn == CreateNameChain("first_name", body.first_name,
                  "First name must be specified.",
                  "First name has non-alphanumeric characters.")
        gn == CreateNameChain("family_name", body.family_name,
                  "Family name must be specified.",
                  "Family name has non-alphanumeric characters.")
        db == DateChain("date_of_birth", body.date_of_birth, "Invalid date of birth")
        dd == DateChain("date_of_death", body.date_of_death, "Invalid date of death")
    IN  [body |-> [body EXCEPT !.first_name = fn.value, !.family_name = gn.value,
                               !.date_of_birth = db.value, !.date_of_death = dd.value],
         errors |-> fn.errors \o gn.errors \o db.errors \o dd.errors]

\* The four chains of author_update_post.
UpdateValidation(body) ==
    LET fn == UpdateNameChain("first_name", body.first_name, "First name must not be empty.")
        gn == UpdateNameChain("family_name", body.family_name, "Family name must not be empty.")
        db == DateChain("date_of_birth", body.date_of_birth, "Invalid date of birth")
        dd == DateChain("date_of_death", body.date_of_death, "Invalid date of death")
    IN  [body |-> [body EXCEPT !.first_name = fn.value, !.family_name = gn.value,
                               !.date_of_birth = db.value, !.date_of_death = dd.value],
         errors |-> fn.errors \o gn.errors \o db.errors \o dd.errors]

(* ------------------------------ the store ----------------------------- *)

VARIABLES
    authors,    \* the Author collection: a set of documents
    books,      \* the Book collection: a set of documents
    nextId,     \* the ObjectId generator: the next identity it hands out
    removed,    \* history: the identities findByIdAndDelete has removed
    req         \* per request: the handler's position, locals and effects

vars == <<authors, books, nextId, removed, req>>

\* The request slots of the behaviour.
Reqs == DOMAIN req

\* An identity. The generator hands out ObjectId(1), ObjectId(2), ...;
\* ObjectId(0) is a well-formed identity that no record ever has.
ObjectId(n) == [oid |-> n]

\* The identities a caller can name: those handed out so far, and one
\* that matches nothing. An identity not yet generated cannot be named.
KnownIds == {ObjectId(n) : n \in 0..(nextId - 1)}

AuthorDoc(id, first, family, birth, death) ==
    [_id |-> id, first_name |-> first, family_name |-> family,
     date_of_birth |-> birth, date_of_death |-> death]

\* The Authors in the store when the server starts.
SeedAuthors ==
    {AuthorDoc(ObjectId(1), Str(<<"B", "o">>), Str(<<"T", "o">>), Undefined, Undefined),
     AuthorDoc(ObjectId(2), Str(<<"A", "l">>), Str(<<"A", "u">>),
               DateOf(1775, 12, 16), Undefined)}

BookDoc(n, a) == [_id |-> n, title |-> "T", summary |-> "S", author |-> a]

\* The 'title summary' projection of a Book (the _id always comes along).
Project(b) == [_id |-> b._id, title |-> b.title, summary |-> b.summary]

AuthorIds == {a._id : a \in authors}

\* Author.findById(id).exec(): the document, or null.
findById(id) ==
    IF id \in AuthorIds THEN CHOOSE a \in authors : a._id = id ELSE Null

RECURSIVE InOrder(_)
\* The documents of a result set as an array, in the store's natural
\* (insertion) order.
InOrder(S) ==
    IF S = {} THEN <<>>
    ELSE LET b == CHOOSE x \in S : \A y \in S : x._id <= y._id
         IN  <<b>> \o InOrder(S \ {b})

\* Book.find({ author: id }).exec()
findBooks(id) == InOrder({b \in books : b.author = id})

RECURSIVE ProjectAll(_)
ProjectAll(bs) ==
    IF bs = <<>> THEN <<>> ELSE <<Project(Head(bs))>> \o ProjectAll(Tail(bs))

\* Book.find({ author: id }, 'title summary').exec()
findBooksProjected(id) == ProjectAll(findBooks(id))

\* The store after author.save() of a new document.
save(doc) == authors \cup {doc}

\* One field of the $set an update document makes: a path the document
\* does not define keeps its stored value.
SetField(old, new) == IF new = Undefined THEN old ELSE new

\* The store after the call as it would be with { upsert: true }: no record
\* at id, the document is inserted.
findByIdAndUpdate_Upsert(id, doc) ==
    IF id \notin {a._id : a \in authors}
    THEN authors \cup {doc}
    ELSE {IF a._id = id
          THEN AuthorDoc(a._id,
                         SetField(a.first_name, doc.first_name),
                         SetField(a.family_name, doc.family_name),
                         SetField(a.date_of_birth, doc.date_of_birth),
                         SetField(a.date_of_death, doc.date_of_death))
          ELSE a : a \in authors}

\* The store after Author.findByIdAndUpdate(id, doc): the record at id takes
\* the document's fields; no record at id, no change (not an upsert).
findByIdAndUpdate(id, doc) ==
    {IF a._id = id
     THEN AuthorDoc(a._id,
                    SetField(a.first_name, doc.first_name),
                    SetField(a.family_name, doc.family_name),
                    SetField(a.date_of_birth, doc.date_of_birth),
                    SetField(a.date_of_death, doc.date_of_death))
     ELSE a : a \in authors}

\* Whether the store refuses the update: a $set of _id to another value.
UpdateRefused(id, doc) == id \in AuthorIds /\ doc._id # id

\* The store after Author.findByIdAndDelete(id): no record at id, no change.
findByIdAndDelete(id) == {a \in authors : a._id # id}

\* The url virtual of the Author model.
AuthorUrl(doc) == [base |-> "/catalog/author/", id |-> doc._id]

AuthorListUrl == [base |-> "/catalog/authors"]

(* ---------------------------- the response ---------------------------- *)

Render(view, data) == [kind |-> "render", view |-> view, data |-> data]
Redirect(url) == [kind |-> "redirect", url |-> url]
NextError(err) == [kind |-> "error", err |-> err]

\* const err = new Error('Author not found'); err.status = 404;
NotFoundError == [message |-> "Author not found", status |-> 404]

\* What a failed store call rejects with: it carries no status.
StoreError == [message |-> "store call failed"]

Mutation(call, id) == [call |-> call, id |-> id]

(* ---------------------------- the requests ---------------------------- *)

\* A request slot before its request arrives. (input is history: the body
\* of a create request as it arrived, before the chains rewrote it;
\* log is what the request has written with console.log.)
IdleReq ==
    [op |-> "none", pc |-> "idle", id |-> Undefined, body |-> Undefined,
     author |-> Undefined, books |-> <<>>, errors |-> <<>>,
     pA |-> "none", pB |-> "none", out |-> <<>>, muts |-> <<>>, failed |-> <<>>,
     input |-> Undefined, log |-> <<>>]

\* The form bodies a client posts to create and update: the four fields,
\* and an _id field no chain declares.
FormBody(first, family, birth, death, id) ==
    [first_name |-> first, family_name |-> family, date_of_birth |-> birth,
     date_of_death |-> death, _id |-> id]

FormBodies ==
    {FormBody(Str(<<"J", "o">>), Str(<<" ", "A", "u">>), Str(<<"1", "7", "7", "5">>),
              Undefined, ObjectId(2)),
     FormBody(Str(<<"J", "<">>), Str(<<"A", "u">>), Str(<<>>), Undefined, Undefined),
     FormBody(Str(<<"J", "o">>), Undefined, Undefined, Str(<<"1", "x">>), Undefined)}

\* The body of the delete form: the hidden authorid field.
DeleteBodies == {[authorid |-> i] : i \in KnownIds}

\* Requests arrive one slot after the other (the slots are interchangeable).
Arrives(r) ==
    /\ req[r].pc = "idle"
    /\ \A s \in Reqs : s < r => req[s].pc # "idle"

\* The fetches as two awaits in a row would start them: the Book query is
\* not started while the Author query is in flight.
IssueFetches_OneByOne(q) == [q EXCEPT !.pA = "pending", !.pc = "all"]

\* Promise.all([Author.findById(id).exec(), Book.find({author: id}, ...).exec()]):
\* both queries are started before the handler awaits.
IssueFetches(q) == [q EXCEPT !.pA = "pending", !.pB = "pending", !.pc = "all"]

\* The gate as a handler that ignores the validation result would have it.
isEmpty_Always(errors) == TRUE

\* errors.isEmpty()
isEmpty(errors) == errors = <<>>

\* The candidate as a handler that passes the whole body to the model
\* would build it: an _id of the body becomes the identity.
CreateCandidate_FromBody(fresh, body) ==
    AuthorDoc(IF body._id = Undefined THEN fresh ELSE body._id,
              body.first_name, body.family_name,
              body.date_of_birth, body.date_of_death)

\* The candidate as a handler that passes only the names to the model would
\* build it.
CreateCandidate_NamesOnly(fresh, body) ==
    AuthorDoc(fresh, body.first_name, body.family_name, Undefined, Undefined)

\* new Author({first_name, family_name, date_of_birth, date_of_death}):
\* the document gets a generated _id; nothing else of the body is read.
CreateCandidate(fresh, body) ==
    AuthorDoc(fresh, body.first_name, body.family_name,
              body.date_of_birth, body.date_of_death)

\* The candidate as a handler that takes the identity from the form would
\* build it.
UpdateCandidate_FromBody(id, body) ==
    AuthorDoc(IF body._id = Undefined THEN id ELSE body._id,
              body.first_name, body.family_name,
              body.date_of_birth, body.date_of_death)

\* new Author({_id: req.params.id, first_name, ...})
UpdateCandidate(id, body) ==
    AuthorDoc(id, body.first_name, body.family_name,
              body.date_of_birth, body.date_of_death)

\* The guard as an off-by-one would have it: allBooksByAuthor.length > 1.
HasBooks_MoreThanOne(bs) == Len(bs) > 1

\* The guard as a handler without it would behave: always the else branch.
HasBooks_Never(bs) == FALSE

\* allBooksByAuthor.length > 0
HasBooks(bs) == Len(bs) > 0

\* The identity author_delete_post hands to findByIdAndDelete.
DeleteTarget(q) == q.body.authorid

\* The test as a handler that never takes the not-found branch would have it.
IsNull_Never(author) == FALSE

\* author === null
IsNull(author) == author = Null

\* The data of the 'author_delete' view, in author_delete_get.
DeleteGetData(author, bs) ==
    [title |-> "Delete Author", author |-> author, author_books |-> bs]

\* The data of the 'author_delete' view, in author_delete_post.
DeletePostData(author, bs) ==
    [title |-> "Delete Author", author |-> author, author_books |-> bs]

\* History: a store call of the request fails; what is kept is the number
\* of mutations the request had issued when its first store call failed.
Fails(q) == [q EXCEPT !.failed = IF @ = <<>> THEN <<Len(q.muts)>> ELSE @]

\* A handler that swallows the rejection: the request ends, nothing is
\* handed to next.
Catch_Swallowed(q, err) == [q EXCEPT !.pc = "done"]

\* What asyncHandler does with a rejected await: next(err), once.
Catch(q, err) == [q EXCEPT !.pc = "done", !.out = Append(@, NextError(err))]

Finish(q, emitted) == [q EXCEPT !.pc = "done", !.out = @ \o emitted]

Init ==
    /\ authors = SeedAuthors
    /\ books = {}
    /\ nextId = Cardinality(SeedAuthors) + 1
    /\ removed = {}
    /\ req = [r \in 1..MaxReq |-> IdleReq]

(* ------------------------- the parallel fetches ----------------------- *)

\* Author.findById(req.params.id) completes: with the record or null, or
\* with a store error.
FindAuthorSettles(r) ==
    /\ req[r].pA = "pending"
    /\ \/ req' = [req EXCEPT ![r].pA = "ok", ![r].author = findById(req[r].id)]
       \/ req' = [req EXCEPT ![r] = [Fails(req[r]) EXCEPT !.pA = "failed"]]
    /\ UNCHANGED <<authors, books, nextId, removed>>

\* Book.find({author: req.params.id}) completes: projected to title and
\* summary everywhere but in author_update_get.
FindBooksSettles(r) ==
    /\ req[r].pB = "pending"
    /\ \/ req' = [req EXCEPT ![r].pB = "ok",
                             ![r].books = IF req[r].op = "update_get"
                                          THEN findBooks(req[r].id)
                                          ELSE findBooksProjected(req[r].id)]
       \/ req' = [req EXCEPT ![r] = [Fails(req[r]) EXCEPT !.pB = "failed"]]
    /\ UNCHANGED <<authors, books, nextId, removed>>

\* Promise.all rejects as soon as one of the two rejects; asyncHandler
\* hands the error to next.
PromiseAllRejects(r) ==
    /\ req[r].pc = "all"
    /\ req[r].pA = "failed" \/ req[r].pB = "failed"
    /\ req' = [req EXCEPT ![r] = Catch(req[r], StoreError)]
    /\ UNCHANGED <<authors, books, nextId, removed>>

\* Promise.all resolves once both have resolved.
Resolved(r, op) ==
    /\ req[r].pc = "all"
    /\ req[r].op = op
    /\ req[r].pA = "ok"
    /\ req[r].pB = "ok"

(* ----------------------------- author_list ---------------------------- *)

\* The characters of the model in code point order.
Ascii ==
    <<"\t", "\n", "\r", " ", "\"", "#", "&", "-", "/",
      "0", "1", "2", "3", "4", "5", "6", "7", "8", "9", ";", "<", ">",
      "A", "B", "C", "D", "E", "F", "G", "H", "I", "J", "K", "L", "M",
      "N", "O", "P", "Q", "R", "S", "T", "U", "V", "W", "X", "Y", "Z", "\\",
      "a", "b", "c", "d", "e", "f", "g", "h", "i", "j", "k", "l", "m",
      "n", "o", "p", "q", "r", "s", "t", "u", "v", "w", "x", "y", "z">>

CharCode(c) == CHOOSE i \in 1..Len(Ascii) : Ascii[i] = c

RECURSIVE StrLeq(_, _)
\* The store's binary comparison of two strings.
StrLeq(s, t) ==
    IF s = <<>> THEN TRUE
    ELSE IF t = <<>> THEN FALSE
    ELSE IF Head(s) = Head(t) THEN StrLeq(Tail(s), Tail(t))
    ELSE CharCode(Head(s)) < CharCode(Head(t))

\* sort({ family_name: 1 }): a missing or null key sorts before every string.
KeyLeq(a, b) ==
    IF a.family_name.t # "string" THEN TRUE
    ELSE IF b.family_name.t # "string" THEN FALSE
    ELSE StrLeq(a.family_name.s, b.family_name.s)

RECURSIVE Arrangements(_)
Arrangements(S) ==
    IF S = {} THEN {<<>>}
    ELSE UNION {{<<x>> \o rest : rest \in Arrangements(S \ {x})} : x \in S}

\* The name virtual of the Author model: the name parts, concatenated.
AuthorName(a) == Str(toString(a.family_name) \o <<",", " ">> \o toString(a.first_name))

\* What a template literal makes of a value: the text 'undefined' or 'null'
\* for an absent one, the text itself, or the text of a Date.
TemplateText(v) ==
    IF v = Undefined THEN Str(<<"u", "n", "d", "e", "f", "i", "n", "e", "d">>)
    ELSE IF v = Null THEN Str(<<"n", "u", "l", "l">>)
    ELSE IF v.t = "string" THEN v
    ELSE [t |-> "text", of |-> v]

\* `Author: ${author.name}, Date of Birth: ${author.date_of_birth},
\*  Date of Death: ${author.date_of_death}`
LogLine(a) ==
    [Author |-> TemplateText(AuthorName(a)),
     DateOfBirth |-> TemplateText(a.date_of_birth),
     DateOfDeath |-> TemplateText(a.date_of_death)]

\* allAuthors.forEach((author) => { console.log(...) })
LogEach(allAuthors) == [i \in 1..Len(allAuthors) |-> LogLine(allAuthors[i])]

\* The query without its sort: every record once, in any order.
findSorted_Unsorted == Arrangements(authors)

\* Author.find().sort({ family_name: 1 }).exec(): every record once, in
\* ascending order of family_name; the order among equal keys is the store's.
findSorted ==
    {s \in Arrangements(authors) :
        \A i \in 1..(Len(s) - 1) : KeyLeq(s[i], s[i + 1])}

author_list(r) ==
    /\ Arrives(r)
    /\ req' = [req EXCEPT ![r] = [IdleReq EXCEPT !.op = "list", !.pc = "find"]]
    /\ UNCHANGED <<authors, books, nextId, removed>>

\* The find resolves: log each author, render the list.
author_list_resume(r) ==
    /\ req[r].pc = "find"
    /\ \E allAuthors \in findSorted :
          req' = [req EXCEPT ![r] =
                    Finish([req[r] EXCEPT !.log = @ \o LogEach(allAuthors)],
                           <<Render("author_list",
                               [title |-> "Author List", author_list |-> allAuthors])>>)]
    /\ UNCHANGED <<authors, books, nextId, removed>>

\* The find rejects: catch (err) { next(err) }.
author_list_catch(r) ==
    /\ req[r].pc = "find"
    /\ req' = [req EXCEPT ![r] = Catch(Fails(req[r]), StoreError)]
    /\ UNCHANGED <<authors, books, nextId, removed>>

(* ---------------------------- author_detail --------------------------- *)

author_detail(r, id) ==
    /\ Arrives(r)
    /\ req' = [req EXCEPT ![r] =
                 IssueFetches([IdleReq EXCEPT !.op = "detail", !.id = id])]
    /\ UNCHANGED <<authors, books, nextId, removed>>

author_detail_resume(r) ==
    /\ Resolved(r, "detail")
    /\ req' = [req EXCEPT ![r] =
                 IF IsNull(req[r].author)
                 THEN Finish(req[r], <<NextError(NotFoundError)>>)
                 ELSE Finish(req[r], <<Render("author_detail",
                         [title |-> "Author Detail", author |-> req[r].author,
                          author_books |-> req[r].books])>>)]
    /\ UNCHANGED <<authors, books, nextId, removed>>

(* ------------------------- author_create_get/post --------------------- *)

author_create_get(r) ==
    /\ Arrives(r)
    /\ req' = [req EXCEPT ![r] =
                 Finish([IdleReq EXCEPT !.op = "create_get"],
                        <<Render("author_form", [title |-> "Create Author"])>>)]
    /\ UNCHANGED <<authors, books, nextId, removed>>

\* The chains run, the candidate is built; with errors the form is rendered
\* again, without errors author.save() is started.
author_create_post(r, body) ==
    /\ Arrives(r)
    /\ LET v == CreateValidation(body)
           author == CreateCandidate(ObjectId(nextId), v.body)
           q == [IdleReq EXCEPT !.op = "create_post", !.body = v.body,
                                !.author = author, !.errors = v.errors,
                                !.input = body]
       IN  req' = [req EXCEPT ![r] =
                     IF ~isEmpty(v.errors)
                     THEN Finish(q, <<Render("author_form",
                             [title |-> "Create Author", author |-> author,
                              errors |-> v.errors])>>)
                     ELSE [q EXCEPT !.pc = "save",
                                    !.muts = Append(@, Mutation("save", author._id))]]
    /\ nextId' = nextId + 1
    /\ UNCHANGED <<authors, books, removed>>

\* author.save() resolves: redirect to the new record.
author_create_post_saved(r) ==
    /\ req[r].pc = "save"
    /\ authors' = save(req[r].author)
    /\ req' = [req EXCEPT ![r] = Finish(req[r], <<Redirect(AuthorUrl(req[r].author))>>)]
    /\ UNCHANGED <<books, nextId, removed>>

author_create_post_failed(r) ==
    /\ req[r].pc = "save"
    /\ req' = [req EXCEPT ![r] = Catch(Fails(req[r]), StoreError)]
    /\ UNCHANGED <<authors, books, nextId, removed>>

(* ------------------------- author_delete_get/post --------------------- *)

author_delete_get(r, id) ==
    /\ Arrives(r)
    /\ req' = [req EXCEPT ![r] =
                 IssueFetches([IdleReq EXCEPT !.op = "delete_get", !.id = id])]
    /\ UNCHANGED <<authors, books, nextId, removed>>

\* if (author === null) { res.redirect(...) } is followed, in either case,
\* by res.render('author_delete', ...): the if has no return.
author_delete_get_resume(r) ==
    /\ Resolved(r, "delete_get")
    /\ req' = [req EXCEPT ![r] =
                 Finish(req[r],
                     (IF IsNull(req[r].author) THEN <<Redirect(AuthorListUrl)>> ELSE <<>>)
                     \o <<Render("author_delete",
                                 DeleteGetData(req[r].author, req[r].books))>>)]
    /\ UNCHANGED <<authors, books, nextId, removed>>

author_delete_post(r, id, body) ==
    /\ Arrives(r)
    /\ req' = [req EXCEPT ![r] =
                 IssueFetches([IdleReq EXCEPT !.op = "delete_post", !.id = id,
                                              !.body = body])]
    /\ UNCHANGED <<authors, books, nextId, removed>>

\* The handler as one that answers a missing Author the way author_detail
\* does would behave: 404 before anything is deleted.
author_delete_post_resume_NotFound(r) ==
    /\ Resolved(r, "delete_post")
    /\ req' = [req EXCEPT ![r] =
                 IF IsNull(req[r].author)
                 THEN Finish(req[r], <<NextError(NotFoundError)>>)
                 ELSE IF HasBooks(req[r].books)
                 THEN Finish(req[r], <<Render("author_delete",
                         DeletePostData(req[r].author, req[r].books))>>)
                 ELSE [req[r] EXCEPT !.pc = "delete",
                         !.muts = Append(@, Mutation("findByIdAndDelete",
                                                     DeleteTarget(req[r])))]]
    /\ UNCHANGED <<authors, books, nextId, removed>>

\* With books: render the confirmation again. Without: start
\* Author.findByIdAndDelete(req.body.authorid).
author_delete_post_resume(r) ==
    /\ Resolved(r, "delete_post")
    /\ req' = [req EXCEPT ![r] =
                 IF HasBooks(req[r].books)
                 THEN Finish(req[r], <<Render("author_delete",
                         DeletePostData(req[r].author, req[r].books))>>)
                 ELSE [req[r] EXCEPT !.pc = "delete",
                         !.muts = Append(@, Mutation("findByIdAndDelete",
                                                     DeleteTarget(req[r])))]]
    /\ UNCHANGED <<authors, books, nextId, removed>>

\* The step over a store whose delete-by-id rejects when no record has the
\* id.
author_delete_post_deleted_Strict(r) ==
    /\ req[r].pc = "delete"
    /\ authors' = findByIdAndDelete(DeleteTarget(req[r]))
    /\ removed' = removed \cup ({DeleteTarget(req[r])} \cap AuthorIds)
    /\ req' = [req EXCEPT ![r] =
                 IF DeleteTarget(req[r]) \in AuthorIds
                 THEN Finish(req[r], <<Redirect(AuthorListUrl)>>)
                 ELSE Catch(req[r], StoreError)]
    /\ UNCHANGED <<books, nextId>>

\* The delete resolves: redirect to the list of authors.
author_delete_post_deleted(r) ==
    /\ req[r].pc = "delete"
    /\ authors' = findByIdAndDelete(DeleteTarget(req[r]))
    /\ removed' = removed \cup ({DeleteTarget(req[r])} \cap AuthorIds)
    /\ req' = [req EXCEPT ![r] = Finish(req[r], <<Redirect(AuthorListUrl)>>)]
    /\ UNCHANGED <<books, nextId>>

author_delete_post_failed(r) ==
    /\ req[r].pc = "delete"
    /\ req' = [req EXCEPT ![r] = Catch(Fails(req[r]), StoreError)]
    /\ UNCHANGED <<authors, books, nextId, removed>>

(* ------------------------- author_update_get/post --------------------- *)

author_update_get(r, id) ==
    /\ Arrives(r)
    /\ req' = [req EXCEPT ![r] =
                 IssueFetches([IdleReq EXCEPT !.op = "update_get", !.id = id])]
    /\ UNCHANGED <<authors, books, nextId, removed>>

author_update_get_resume(r) ==
    /\ Resolved(r, "update_get")
    /\ req' = [req EXCEPT ![r] =
                 IF IsNull(req[r].author)
                 THEN Finish(req[r], <<NextError(NotFoundError)>>)
                 ELSE Finish(req[r], <<Render("author_form",
                         [title |-> "Update Author", author |-> req[r].author,
                          author_books |-> req[r].books])>>)]
    /\ UNCHANGED <<authors, books, nextId, removed>>

\* The chains run, the candidate is built with the path id; with errors the
\* books are fetched again, without errors the update is started.
author_update_post(r, id, body) ==
    /\ Arrives(r)
    /\ LET v == UpdateValidation(body)
           author == UpdateCandidate(id, v.body)
           q == [IdleReq EXCEPT !.op = "update_post", !.id = id, !.body = v.body,
                                !.author = author, !.errors = v.errors]
       IN  req' = [req EXCEPT ![r] =
                     IF ~isEmpty(v.errors)
                     THEN [q EXCEPT !.pc = "books"]
                     ELSE [q EXCEPT !.pc = "update",
                                    !.muts = Append(@, Mutation("findByIdAndUpdate", id))]]
    /\ UNCHANGED <<authors, books, nextId, removed>>

\* The branch as a handler that writes the candidate before it renders the
\* form again would have it.
author_update_post_rerender_Saving(r) ==
    /\ req[r].pc = "books"
    /\ LET author_books == findBooks(req[r].id)
       IN  req' = [req EXCEPT ![r] =
                     Finish([req[r] EXCEPT !.books = author_books],
                         <<Render("author_form",
                             [title |-> "Update Author", author |-> req[r].author,
                              author_books |-> author_books,
                              errors |-> req[r].errors])>>)]
    /\ authors' = findByIdAndUpdate(req[r].id, req[r].author)
    /\ UNCHANGED <<books, nextId, removed>>

\* Book.find({author: req.params.id}) resolves: render the form again.
author_update_post_rerender(r) ==
    /\ req[r].pc = "books"
    /\ LET author_books == findBooks(req[r].id)
       IN  req' = [req EXCEPT ![r] =
                     Finish([req[r] EXCEPT !.books = author_books],
                         <<Render("author_form",
                             [title |-> "Update Author", author |-> req[r].author,
                              author_books |-> author_books,
                              errors |-> req[r].errors])>>)]
    /\ UNCHANGED <<authors, books, nextId, removed>>

\* Author.findByIdAndUpdate(req.params.id, author) resolves: redirect to
\* the author's detail page.
author_update_post_updated(r) ==
    /\ req[r].pc = "update"
    /\ ~UpdateRefused(req[r].id, req[r].author)
    /\ authors' = findByIdAndUpdate(req[r].id, req[r].author)
    /\ req' = [req EXCEPT ![r] = Finish(req[r], <<Redirect(AuthorUrl(req[r].author))>>)]
    /\ UNCHANGED <<books, nextId, removed>>

\* Book.find or findByIdAndUpdate rejects.
author_update_post_failed(r) ==
    /\ req[r].pc \in {"books", "update"}
    /\ req' = [req EXCEPT ![r] = Catch(Fails(req[r]), StoreError)]
    /\ UNCHANGED <<authors, books, nextId, removed>>

(* ---------------------- other clients of the store -------------------- *)

\* Another client (the book controller) inserts a Book of an Author that
\* is in the store at that moment.
InsertBook(a) ==
    /\ Cardinality(books) < MaxBooks
    /\ a \in AuthorIds
    /\ books' = books \cup {BookDoc(Cardinality(books) + 1, a)}
    /\ UNCHANGED <<authors, nextId, removed, req>>

(* --------------------------- the specification ------------------------ *)

Next ==
    \/ \E r \in Reqs : author_list(r)
    \/ \E r \in Reqs : author_list_resume(r)
    \/ \E r \in Reqs : author_list_catch(r)
    \/ \E r \in Reqs, id \in KnownIds : author_detail(r, id)
    \/ \E r \in Reqs : author_detail_resume(r)
    \/ \E r \in Reqs : author_create_get(r)
    \/ \E r \in Reqs, body \in FormBodies : author_create_post(r, body)
    \/ \E r \in Reqs : author_create_post_saved(r)
    \/ \E r \in Reqs : author_create_post_failed(r)
    \/ \E r \in Reqs, id \in KnownIds : author_delete_get(r, id)
    \/ \E r \in Reqs : author_delete_get_resume(r)
    \/ \E r \in Reqs, id \in KnownIds, body \in DeleteBodies : author_delete_post(r, id, body)
    \/ \E r \in Reqs : author_delete_post_resume(r)
    \/ \E r \in Reqs : author_delete_post_deleted(r)
    \/ \E r \in Reqs : author_delete_post_failed(r)
    \/ \E r \in Reqs, id \in KnownIds : author_update_get(r, id)
    \/ \E r \in Reqs : author_update_get_resume(r)
    \/ \E r \in Reqs, id \in KnownIds, body \in FormBodies : author_update_post(r, id, body)
    \/ \E r \in Reqs : author_update_post_rerender(r)
    \/ \E r \in Reqs : author_update_post_updated(r)
    \/ \E r \in Reqs : author_update_post_failed(r)
    \/ \E r \in Reqs : FindAuthorSettles(r)
    \/ \E r \in Reqs : FindBooksSettles(r)
    \/ \E r \in Reqs : PromiseAllRejects(r)
    \/ \E a \in KnownIds : InsertBook(a)

Spec == Init /\ [][Next]_vars

(* ------------------------ the delete-only system ---------------------- *)

InitDeletes ==
    /\ authors = SeedAuthors
    /\ books = {}
    /\ nextId = Cardinality(SeedAuthors) + 1
    /\ removed = {}
    /\ req = [r \in 1..MaxDeletes |-> IdleReq]

\* The server under delete requests only, each one posted from the
\* confirmation form of its own path (the hidden authorid is the path id),
\* possibly several for the same Author, overlapping at every await; other
\* clients of the store insert Books meanwhile.
NextDeletes ==
    \/ \E r \in Reqs, id \in KnownIds : author_delete_post(r, id, [authorid |-> id])
    \/ \E r \in Reqs : author_delete_post_resume(r)
    \/ \E r \in Reqs : author_delete_post_deleted(r)
    \/ \E r \in Reqs : author_delete_post_failed(r)
    \/ \E r \in Reqs : FindAuthorSettles(r)
    \/ \E r \in Reqs : FindBooksSettles(r)
    \/ \E r \in Reqs : PromiseAllRejects(r)
    \/ \E a \in KnownIds : InsertBook(a)

SpecDeletes == InitDeletes /\ [][NextDeletes]_vars

(* -------------------- the serial create/detail system ----------------- *)

\* The store holds a Book of one of the seed Authors.
InitSerial ==
    /\ authors = SeedAuthors
    /\ books = {BookDoc(1, ObjectId(2))}
    /\ nextId = Cardinality(SeedAuthors) + 1
    /\ removed = {}
    /\ req = [r \in 1..MaxSerial |-> IdleReq]

\* The request before r has been answered.
AfterPrevious(r) == \A s \in Reqs : s < r => req[s].pc = "done"

\* The server under create and detail requests sent one after the other,
\* each after the answer to the one before; the store has no other client.
NextSerial ==
    \/ \E r \in Reqs, body \in FormBodies :
          AfterPrevious(r) /\ author_create_post(r, body)
    \/ \E r \in Reqs : author_create_post_saved(r)
    \/ \E r \in Reqs : author_create_post_failed(r)
    \/ \E r \in Reqs, id \in KnownIds :
          AfterPrevious(r) /\ author_detail(r, id)
    \/ \E r \in Reqs : author_detail_resume(r)
    \/ \E r \in Reqs : FindAuthorSettles(r)
    \/ \E r \in Reqs : FindBooksSettles(r)
    \/ \E r \in Reqs : PromiseAllRejects(r)

SpecSerial == InitSerial /\ [][NextSerial]_vars

(* ----------------------- the validation-only system ------------------- *)

\* The characters of the submitted names: a letter, a digit, a blank and a
\* character escape() rewrites.
NameChars == {"a", "7", " ", "<"}

\* The values of a name field: absent, or a text of up to MaxLen characters.
NameInputs ==
    {Undefined} \cup {Str(s) : s \in UNION {[1..k -> NameChars] : k \in 0..MaxLen}}

\* The values of the date fields: absent, empty, well-formed, malformed.
BirthInputs ==
    {Undefined, Str(<<>>), Str(<<"1", "7", "7", "5">>), Str(<<"1", "x">>)}

DeathInputs ==
    {Undefined, Str(<<"1", "8", "1", "7", "-", "0", "7", "-", "1", "8">>),
     Str(<<"1", "8", "1", "7", "-", "1", "3">>)}

ValidationBodies ==
    {FormBody(first, family, birth, death, Undefined) :
        first \in NameInputs, family \in NameInputs,
        birth \in BirthInputs, death \in DeathInputs}

InitValidate ==
    /\ authors = SeedAuthors
    /\ books = {}
    /\ nextId = Cardinality(SeedAuthors) + 1
    /\ removed = {}
    /\ req = <<IdleReq>>

\* The server under one create request, over every body of ValidationBodies.
NextValidate ==
    \/ \E r \in Reqs :
          Arrives(r) /\ \E body \in ValidationBodies : author_create_post(r, body)
    \/ \E r \in Reqs : author_create_post_saved(r)
    \/ \E r \in Reqs : author_create_post_failed(r)

SpecValidate == InitValidate /\ [][NextValidate]_vars

(* ------------------------------ the claims ---------------------------- *)

Done(r) == req[r].pc = "done"

\* The operations that start with the two parallel fetches.
ParallelOps == {"detail", "delete_get", "delete_post", "update_get"}

\* Both fetches of the request resolved, so Promise.all resolved and the
\* handler went on with their results.
BothResolved(r) == req[r].pA = "ok" /\ req[r].pB = "ok"

Emits(r, kind) == \E i \in 1..Len(req[r].out) : req[r].out[i].kind = kind

\* C1. Delete-guard: a delete_author request whose re-fetched Books of the
\* path id are not empty issues no delete (so it removes no Author), never
\* redirects, and, its two fetches resolved, ends with exactly the
\* 'author_delete' render, carrying the data render_delete_confirmation
\* builds from the same author and books.
C1_DeleteGuard ==
    \A r \in Reqs :
        (req[r].op = "delete_post" /\ req[r].pB = "ok" /\ Len(req[r].books) > 0) =>
            /\ req[r].muts = <<>>
            /\ req[r].pc # "delete"
            /\ ~Emits(r, "redirect")
            /\ (Done(r) /\ BothResolved(r)) =>
                  req[r].out = <<Render("author_delete",
                                   DeleteGetData(req[r].author, req[r].books))>>

\* A refused delete: the author is there, has books, and the confirmation
\* was rendered again.
C1_Witness ==
    \E r \in Reqs :
        /\ req[r].op = "delete_post"
        /\ Done(r)
        /\ Len(req[r].books) > 0
        /\ req[r].author # Null
        /\ Emits(r, "render")

\* C2, as claimed. No Book references an Author that delete_author has
\* removed; stated for the requests whose submitted id is the path id, so
\* that the Author removed is the one whose Books were re-queried.
C2_NoBookOfRemovedAuthor ==
    \A r \in Reqs :
        (/\ req[r].op = "delete_post"
         /\ DeleteTarget(req[r]) = req[r].id
         /\ Done(r)
         /\ Emits(r, "redirect")
         /\ req[r].id \in removed) =>
            \A b \in books : b.author # req[r].id

\* C2, amended. delete_author issues the delete only in a request whose
\* own re-query of the Books of the path id resolved with none.
C2_DeleteOnlyAfterEmptyRequery ==
    \A r \in Reqs :
        (req[r].op = "delete_post" /\ (req[r].muts # <<>> \/ req[r].pc = "delete")) =>
            /\ req[r].pB = "ok"
            /\ req[r].books = <<>>

\* A delete request removed an Author after its re-query found no books.
C2_Witness ==
    \E r \in Reqs :
        /\ req[r].op = "delete_post"
        /\ Done(r)
        /\ Emits(r, "redirect")
        /\ DeleteTarget(req[r]) \in removed

\* C3, as claimed. The Author that delete_author removes is the one at the
\* path id, whose Books were re-queried: a request whose submitted id
\* differs from the path id removes no Author.
C3_DeletesThePathId ==
    \A r \in Reqs :
        (/\ req[r].op = "delete_post"
         /\ Done(r)
         /\ DeleteTarget(req[r]) # req[r].id) =>
            DeleteTarget(req[r]) \notin removed

\* C4. Validation gates persistence: a create_author or update_author
\* request whose error list is not empty issues no store mutation, and ends
\* with the 'author_form' render of the candidate Author and the errors
\* (for update with the Books fetched again, unless that fetch fails).
C4_ValidationGatesPersistence ==
    \A r \in Reqs :
        (req[r].op \in {"create_post", "update_post"} /\ req[r].errors # <<>>) =>
            /\ req[r].muts = <<>>
            /\ req[r].pc \notin {"save", "update"}
            /\ (Done(r) /\ req[r].op = "create_post") =>
                  req[r].out = <<Render("author_form",
                      [title |-> "Create Author", author |-> req[r].author,
                       errors |-> req[r].errors])>>
            /\ (Done(r) /\ req[r].op = "update_post" /\ req[r].failed = <<>>) =>
                  req[r].out = <<Render("author_form",
                      [title |-> "Update Author", author |-> req[r].author,
                       author_books |-> req[r].books, errors |-> req[r].errors])>>

\* An update with a validation error, of an Author that has a Book, ended
\* with the form rendered again.
C4_Witness ==
    \E r \in Reqs :
        /\ req[r].op = "update_post"
        /\ req[r].errors # <<>>
        /\ Done(r)
        /\ Emits(r, "render")
        /\ req[r].books # <<>>

\* The step in which the store call a request awaits at pc resolves.
Resolves(r, op, pc) ==
    /\ req[r].op = op
    /\ req[r].pc = pc
    /\ req'[r].pc = "done"
    /\ req'[r].failed = <<>>

\* C5. A create_author request without validation errors issues exactly one
\* insert; when it resolves, the store holds exactly one record more, the
\* candidate, every other record as it was; the new identity is the
\* identity of no record in the store and is not the _id the caller sent;
\* and the request ends with the redirect to the URL of that identity.
C5_CreatePersistsOneFreshAuthor ==
    [][\A r \in Reqs :
        /\ (req'[r].op = "create_post" /\ req'[r].errors = <<>>) =>
              req'[r].muts = <<Mutation("save", req'[r].author._id)>>
        /\ Resolves(r, "create_post", "save") =>
              /\ req[r].author._id \notin AuthorIds
              /\ req[r].author._id # req[r].body._id
              /\ authors' = authors \cup {req[r].author}
              /\ Cardinality(authors') = Cardinality(authors) + 1
              /\ req'[r].out = <<Redirect(AuthorUrl([_id |-> req[r].author._id]))>>
      ]_vars

\* A create whose body carried an _id was saved and redirected.
C5_Witness ==
    \E r \in Reqs :
        /\ req[r].op = "create_post"
        /\ Done(r)
        /\ Emits(r, "redirect")
        /\ req[r].body._id # Undefined
        /\ req[r].author \in authors

\* C6. Update preserves identity: the candidate of an update_author request
\* carries the path id, the only mutation the request issues is the update
\* at the path id, and when it resolves no record but the one at the path id
\* has changed, the identities in the store are the same as before, and the
\* request ends with the redirect to the URL of the path id.
C6_UpdatePreservesIdentity ==
    [][\A r \in Reqs :
        /\ req'[r].op = "update_post" =>
              /\ req'[r].author._id = req'[r].id
              /\ \A i \in 1..Len(req'[r].muts) :
                    req'[r].muts[i] = Mutation("findByIdAndUpdate", req'[r].id)
        /\ Resolves(r, "update_post", "update") =>
              /\ \A a \in authors : a._id # req[r].id => a \in authors'
              /\ \A a \in authors' : a._id # req[r].id => a \in authors
              /\ {a._id : a \in authors'} = AuthorIds
              /\ Cardinality(authors') = Cardinality(authors)
              /\ req'[r].out = <<Redirect(AuthorUrl([_id |-> req[r].id]))>>
      ]_vars

\* An update whose body carried the _id of another Author changed the
\* record at the path id.
C6_Witness ==
    \E r \in Reqs :
        /\ req[r].op = "update_post"
        /\ Done(r)
        /\ Emits(r, "redirect")
        /\ req[r].body._id \notin {Undefined, req[r].id}
        /\ req[r].author.first_name \in {a.first_name : a \in {x \in authors : x._id = req[r].id}}

\* C7, as claimed. render_delete_confirmation whose Author lookup found
\* nothing ends with the redirect to the author list and nothing else; the
\* 'author_delete' render is emitted only when the Author was found.
C7_RedirectOrRender ==
    \A r \in Reqs :
        (req[r].op = "delete_get" /\ Done(r) /\ BothResolved(r)) =>
            IF req[r].author = Null
            THEN req[r].out = <<Redirect([base |-> "/catalog/authors"])>>
            ELSE /\ Len(req[r].out) = 1
                 /\ req[r].out[1].kind = "render"

\* C8. get_author_detail and render_update_form, their two fetches
\* resolved: a null Author ends the request with the 404 error handed to
\* next and no render; a record ends it with the render of that Author and
\* the fetched Books and no error.
C8_NotFoundIs404 ==
    \A r \in Reqs :
        (req[r].op \in {"detail", "update_get"} /\ Done(r) /\ BothResolved(r)) =>
            IF req[r].author = Null
            THEN req[r].out =
                    <<NextError([message |-> "Author not found", status |-> 404])>>
            ELSE req[r].out =
                    <<Render(IF req[r].op = "detail" THEN "author_detail" ELSE "author_form",
                        [title |-> IF req[r].op = "detail" THEN "Author Detail"
                                   ELSE "Update Author",
                         author |-> req[r].author, author_books |-> req[r].books])>>

\* A detail request for an identity that is not in the store ended.
C8_Witness ==
    \E r \in Reqs :
        /\ req[r].op = "detail"
        /\ Done(r)
        /\ BothResolved(r)
        /\ req[r].author = Null
        /\ Emits(r, "error")

\* C9. Store failures are propagated: a request one of whose store calls
\* has failed emits nothing until the failure is handed to next, ends with
\* exactly that one error and no render or redirect, and issues no store
\* mutation after the failure.
C9_StoreFailuresPropagate ==
    \A r \in Reqs :
        req[r].failed # <<>> =>
            /\ req[r].pc \in {"all", "done"}
            /\ Len(req[r].muts) = req[r].failed[1]
            /\ req[r].out = IF Done(r) THEN <<NextError(StoreError)>> ELSE <<>>

\* Both parallel fetches of a request failed and the request ended.
C9_Witness ==
    \E r \in Reqs :
        /\ req[r].pA = "failed"
        /\ req[r].pB = "failed"
        /\ Done(r)
        /\ Emits(r, "error")

Settled(p) == p \in {"ok", "failed"}

\* C10, as claimed. In the four operations with parallel fetches neither
\* fetch completes before the other is issued, and the request's decision
\* (render, redirect, error or delete) is taken only after both completed.
C10_DecisionAfterBoth ==
    \A r \in Reqs :
        req[r].op \in ParallelOps =>
            /\ Settled(req[r].pA) => req[r].pB # "none"
            /\ Settled(req[r].pB) => req[r].pA # "none"
            /\ (req[r].out # <<>> \/ req[r].muts # <<>> \/ req[r].pc \notin {"all"}) =>
                  (Settled(req[r].pA) /\ Settled(req[r].pB))

\* C10, amended. Neither fetch completes before the other is issued; a
\* render, a redirect, the not-found error or a delete is decided only
\* after both have resolved; the error of a failed fetch is handed to next
\* once one of them has failed, whether or not the other has completed.
C10_ParallelFetches ==
    \A r \in Reqs :
        req[r].op \in ParallelOps =>
            /\ Settled(req[r].pA) => req[r].pB # "none"
            /\ Settled(req[r].pB) => req[r].pA # "none"
            /\ (req[r].out # <<>> \/ req[r].muts # <<>> \/ req[r].pc \notin {"all"}) =>
                  \/ BothResolved(r)
                  \/ /\ req[r].out = <<NextError(StoreError)>>
                     /\ req[r].muts = <<>>
                     /\ req[r].pA = "failed" \/ req[r].pB = "failed"

\* A delete request whose two fetches had both resolved, with no books,
\* went on to the delete.
C10_Witness ==
    \E r \in Reqs :
        /\ req[r].op = "delete_post"
        /\ BothResolved(r)
        /\ req[r].pc = "delete"
        /\ req[r].muts # <<>>

\* The delete_post request r is a repetition of an earlier one: a request
\* with the same path id and the same body has ended with the redirect.
RepeatsDelete(r) ==
    \E q \in Reqs \ {r} :
        /\ Done(q)
        /\ req[q].op = "delete_post"
        /\ req[q].id = req[r].id
        /\ req[q].body = req[r].body
        /\ req[q].out = <<Redirect(AuthorListUrl)>>

\* C11. Deleting an absent Author is a no-op: a delete_author request whose
\* fetches found no Author and no Book of its id goes on to the
\* delete-by-id; when that delete resolves and the store holds no Author of
\* the id (or the request repeats one that has already ended with the
\* redirect), the Author and Book collections are left as they were and the
\* request ends with exactly the redirect to the author list, with no error.
C11_DeleteAbsentIsNoOp ==
    [][\A r \in Reqs :
          /\ (/\ Resolved(r, "delete_post")
              /\ IsNull(req[r].author)
              /\ req[r].books = <<>>
              /\ req'[r] # req[r])
                => /\ req'[r].pc = "delete"
                   /\ req'[r].muts = <<Mutation("findByIdAndDelete", req[r].id)>>
                   /\ req'[r].out = <<>>
          /\ (/\ Resolves(r, "delete_post", "delete")
              /\ DeleteTarget(req[r]) = req[r].id
              /\ req[r].id \notin AuthorIds \/ RepeatsDelete(r))
                => /\ authors' = authors
                   /\ books' = books
                   /\ req'[r].out = <<Redirect(AuthorListUrl)>>]_vars

\* Two delete requests of the same id, neither of which found an Author or
\* a Book, have both ended with the redirect.
C11_Witness ==
    \E r, q \in Reqs :
        /\ r # q
        /\ \A x \in {r, q} :
              /\ Done(x)
              /\ req[x].op = "delete_post"
              /\ req[x].id = req[r].id
              /\ DeleteTarget(req[x]) = req[r].id
              /\ BothResolved(x)
              /\ IsNull(req[x].author)
              /\ req[x].books = <<>>
              /\ req[x].out = <<Redirect(AuthorListUrl)>>

\* Request r is a create_author that was saved and answered with the
\* redirect, and the next request is a get_author_detail of the identity in
\* that redirect.
CreateThenDetail(r) ==
    /\ r + 1 \in Reqs
    /\ req[r].op = "create_post"
    /\ Done(r)
    /\ Len(req[r].out) = 1
    /\ req[r].out[1].kind = "redirect"
    /\ req[r + 1].op = "detail"
    /\ req[r + 1].id = req[r].out[1].url.id

\* C12. Round trip: when a create_author has ended with its redirect and
\* the next request, with nothing in between, is a get_author_detail of the
\* identity in that redirect whose two fetches resolve, the detail request
\* ends with exactly the 'author_detail' render (no 404), the Author in it
\* carries that identity and the sanitized first_name, family_name,
\* date_of_birth and date_of_death of the create, and its Books are empty.
C12_CreateDetailRoundTrip ==
    \A r \in Reqs :
        (CreateThenDetail(r) /\ Done(r + 1) /\ BothResolved(r + 1)) =>
            /\ Len(req[r + 1].out) = 1
            /\ req[r + 1].out[1].kind = "render"
            /\ req[r + 1].out[1].view = "author_detail"
            /\ req[r + 1].out[1].data.author =
                  AuthorDoc(req[r].out[1].url.id,
                            req[r].body.first_name, req[r].body.family_name,
                            req[r].body.date_of_birth, req[r].body.date_of_death)
            /\ req[r + 1].out[1].data.author_books = <<>>

\* A create with a date of birth was saved and the detail request after it,
\* for the identity in its redirect, has been answered.
C12_Witness ==
    \E r \in Reqs :
        /\ CreateThenDetail(r)
        /\ Done(r + 1)
        /\ BothResolved(r + 1)
        /\ req[r].body.date_of_birth # Undefined
        /\ Emits(r + 1, "render")

NameFields == {"first_name", "family_name"}

Alphanumerics == Digits \cup Letters

HasErrorAt(r, path) ==
    \E i \in 1..Len(req[r].errors) : req[r].errors[i].path = path

\* Nothing of the request reached the store: no mutation was issued and the
\* candidate is not in the Author collection.
NothingPersisted(r) ==
    /\ req[r].muts = <<>>
    /\ req[r].author \notin authors
    /\ Done(r)

\* The name as submitted is absent, empty once trimmed, or has a
\* non-alphanumeric character anywhere in it.
NameRejectedAsSubmitted(v) ==
    \/ v = Undefined
    \/ Trim(v.s) = <<>>
    \/ \E i \in 1..Len(v.s) : v.s[i] \notin Alphanumerics

\* The name is absent, empty once trimmed, or has a non-alphanumeric
\* character left once trimmed.
NameRejectedOnceTrimmed(v) ==
    \/ v = Undefined
    \/ Trim(v.s) = <<>>
    \/ \E i \in 1..Len(Trim(v.s)) : Trim(v.s)[i] \notin Alphanumerics

NameAccepted(v) ==
    /\ v # Undefined
    /\ Len(v.s) >= 1
    /\ \A i \in 1..Len(v.s) : v.s[i] \in Alphanumerics

DateAccepted(v) == v = Undefined \/ v.s = <<>> \/ IsISO8601(v.s)

AllAccepted(body) ==
    /\ NameAccepted(body.first_name)
    /\ NameAccepted(body.family_name)
    /\ DateAccepted(body.date_of_birth)
    /\ DateAccepted(body.date_of_death)

\* C13 as stated. Name validation on create_author: whenever a submitted
\* name is absent, empty after trimming, or contains a non-alphanumeric
\* character, the error list has an error of that field and nothing is
\* persisted; when both names are non-empty alphanumeric and the dates
\* absent, empty or well-formed, the error list is empty.
C13_NameValidationAsSubmitted ==
    \A r \in Reqs :
        req[r].op = "create_post" =>
            /\ \A f \in NameFields :
                  NameRejectedAsSubmitted(req[r].input[f]) =>
                      HasErrorAt(r, f) /\ NothingPersisted(r)
            /\ AllAccepted(req[r].input) => req[r].errors = <<>>

\* C13, amended. Name validation on create_author: whenever a submitted
\* name is absent, empty after trimming, or contains a non-alphanumeric
\* character after trimming, the error list has an error of that field and
\* nothing is persisted; when both names are non-empty alphanumeric and the
\* dates absent, empty or well-formed, the error list is empty.
C13_NameValidation ==
    \A r \in Reqs :
        req[r].op = "create_post" =>
            /\ \A f \in NameFields :
                  NameRejectedOnceTrimmed(req[r].input[f]) =>
                      HasErrorAt(r, f) /\ NothingPersisted(r)
            /\ AllAccepted(req[r].input) => req[r].errors = <<>>

\* A create whose first name has a character escape() rewrites, and whose
\* family name is fine, was answered with an error of first_name and none
\* of family_name.
C13_Witness ==
    \E r \in Reqs :
        /\ req[r].op = "create_post"
        /\ Done(r)
        /\ req[r].input.first_name = Str(<<"a", "<">>)
        /\ NameAccepted(req[r].input.family_name)
        /\ HasErrorAt(r, "first_name")
        /\ ~HasErrorAt(r, "family_name")
        /\ NothingPersisted(r)

\* C14. list_authors: when the find of a list request resolves, the request
\* ends with exactly the 'author_list' render, whose list holds every
\* Author of the store exactly once, each adjacent pair in ascending order
\* of family_name; every record of the list has been logged, and a record
\* without dates is logged like any other: the request does not fail.
C14_ListSortedAndComplete ==
    [][\A r \in Reqs :
          (req[r].pc = "find" /\ req'[r].pc = "done" /\ req'[r].failed = <<>>) =>
              /\ Len(req'[r].out) = 1
              /\ req'[r].out[1].kind = "render"
              /\ req'[r].out[1].view = "author_list"
              /\ LET list == req'[r].out[1].data.author_list
                 IN  /\ Len(list) = Cardinality(authors)
                     /\ {list[i] : i \in 1..Len(list)} = authors
                     /\ \A i \in 1..(Len(list) - 1) :
                           StrLeq(list[i].family_name.s, list[i + 1].family_name.s)
                     /\ Len(req'[r].log) = Len(list)
      ]_vars

\* A list request was answered with a list of two or more records, one of
\* them without a date of birth and of death, and logged it.
C14_Witness ==
    \E r \in Reqs :
        /\ req[r].op = "list"
        /\ Done(r)
        /\ Emits(r, "render")
        /\ Len(req[r].out[1].data.author_list) >= 2
        /\ \E i \in 1..Len(req[r].log) :
              /\ req[r].out[1].data.author_list[i].date_of_birth = Undefined
              /\ req[r].out[1].data.author_list[i].date_of_death = Undefined
              /\ req[r].log[i].DateOfBirth = TemplateText(Undefined)

\* The operations that only read the store.
ReadOps == {"list", "detail", "create_get", "delete_get", "update_get"}

\* The step is the validated create of request r resolving: one insert.
CreateStep(r) ==
    /\ Resolves(r, "create_post", "save")
    /\ req[r].errors = <<>>
    /\ Len(req'[r].muts) = 1
    /\ authors' = authors \cup {req[r].author}

\* The step is the validated update of request r resolving: one update of
\* the record at the path id.
UpdateStep(r) ==
    /\ Resolves(r, "update_post", "update")
    /\ req[r].errors = <<>>
    /\ Len(req'[r].muts) = 1
    /\ {a \in authors' : a._id # req[r].id} = {a \in authors : a._id # req[r].id}
    /\ Cardinality(authors') = Cardinality(authors)

\* The step is the delete of request r resolving, its guard having found no
\* Book: one delete-by-id.
DeleteStep(r) ==
    /\ Resolves(r, "delete_post", "delete")
    /\ BothResolved(r)
    /\ req[r].books = <<>>
    /\ Len(req'[r].muts) = 1
    /\ \E id \in AuthorIds : authors' = {a \in authors : a._id # id}

\* C15. Frame of the controller on the store: no step of a request changes
\* the Book collection; a step that changes the Author collection is a
\* validated create resolving (one insert), a validated update resolving
\* (one update-by-id) or a delete whose guard found no Books resolving (one
\* delete-by-id); and no step of a list, detail, create-form, delete-form or
\* update-form request, of a delete whose guard found Books, or of a create
\* or update with validation errors changes either collection.
C15_Frame ==
    [][/\ req' # req => books' = books
       /\ authors' # authors =>
             \E r \in Reqs : CreateStep(r) \/ UpdateStep(r) \/ DeleteStep(r)
       /\ \A r \in Reqs :
             (/\ req'[r] # req[r]
              /\ \/ req'[r].op \in ReadOps
                 \/ req'[r].op = "delete_post" /\ req'[r].books # <<>>
                 \/ req'[r].op \in {"create_post", "update_post"}
                      /\ req'[r].errors # <<>>)
                => authors' = authors /\ books' = books
      ]_vars

\* An update of a stored Author whose body failed validation was answered
\* with the form, the Author collection as it was.
C15_Witness ==
    \E r \in Reqs :
        /\ req[r].op = "update_post"
        /\ Done(r)
        /\ req[r].errors # <<>>
        /\ Emits(r, "render")
        /\ req[r].id \in AuthorIds
        /\ req[r].author \notin authors
        /\ authors = SeedAuthors

\* C16. update_author never adds or removes an Author: no step of an
\* update_author request, valid or not, changes the set of identities in
\* the store; and when the update of a request without validation errors
\* resolves on a path id that no record has, the Author collection is left
\* as it was and the request ends with exactly the redirect to the URL of
\* the path id, not with an error.
C16_UpdateIsNotUpsert ==
    [][\A r \in Reqs :
          /\ (req'[r].op = "update_post" /\ req'[r] # req[r]) =>
                {a._id : a \in authors'} = {a._id : a \in authors}
          /\ (/\ Resolves(r, "update_post", "update")
              /\ req[r].id \notin AuthorIds) =>
                /\ authors' = authors
                /\ req'[r].out = <<Redirect(AuthorUrl([_id |-> req[r].id]))>>
      ]_vars

\* A valid update of a path id that no record has was answered with the
\* redirect, the Author collection as it was.
C16_Witness ==
    \E r \in Reqs :
        /\ req[r].op = "update_post"
        /\ Done(r)
        /\ req[r].errors = <<>>
        /\ req[r].id \notin AuthorIds
        /\ req[r].out = <<Redirect(AuthorUrl([_id |-> req[r].id]))>>
        /\ authors = SeedAuthors

\* Requests r and q are two delete_author requests of the same Author, each
\* submitting its path id, both finished without a failed store call, and
\* no Book has referenced that Author.
BothDeleted(r, q) ==
    /\ r # q
    /\ \A x \in {r, q} :
          /\ req[x].op = "delete_post"
          /\ req[x].id = req[r].id
          /\ DeleteTarget(req[x]) = req[r].id
          /\ Done(x)
          /\ req[x].failed = <<>>
    /\ \A b \in books : b.author # req[r].id

\* The identities some delete request other than r and q has named.
NamedByOthers(r, q) ==
    {req[x].id : x \in {y \in Reqs \ {r, q} : req[y].op = "delete_post"}}

\* C17. Concurrent deletes of the same Author: in every interleaving of two
\* delete_author requests with the same path id and submitted id, the
\* Author without Books throughout, once both have finished each has ended
\* with exactly the redirect to the author list (neither with an error),
\* each has issued only the delete of that id, the Author is not in the
\* store, and every other Author (that no further delete request names) is
\* still there.
C17_ConcurrentDeletes ==
    \A r, q \in Reqs :
        BothDeleted(r, q) =>
            /\ \A x \in {r, q} :
                  /\ req[x].out = <<Redirect(AuthorListUrl)>>
                  /\ req[x].muts = <<Mutation("findByIdAndDelete", req[r].id)>>
            /\ req[r].id \notin AuthorIds
            /\ \A a \in SeedAuthors :
                  a._id \notin ({req[r].id} \cup NamedByOthers(r, q)) => a \in authors

\* Two delete requests of one stored Author, each of which found the Author
\* before the other removed it, have both finished.
C17_Witness ==
    \E r, q \in Reqs :
        /\ BothDeleted(r, q)
        /\ req[r].id \in removed
        /\ ~IsNull(req[r].author)
        /\ ~IsNull(req[q].author)
        /\ req[r].out = <<Redirect(AuthorListUrl)>>
        /\ req[q].out = <<Redirect(AuthorListUrl)>>

====
